---- MODULE Spec2Model ----
(***************************************************************************)
(* Model of ennio: the deployment orchestrator (ennio/app.py), the         *)
(* changeset protocol of one stack (ennio/stack.py) and the polling        *)
(* back-off (ennio/utils.py).                                              *)
(*                                                                         *)
(* One behaviour is one process: an EnnioApplication is constructed and    *)
(* one command (deploy_all, delete_all, or the helper rollback_all) runs   *)
(* to its end.  The remote services (SSM parameter store, CloudFormation)  *)
(* are the environment: every answer they can give is a nondeterministic   *)
(* choice.                                                                 *)
(***************************************************************************)
EXTENDS Integers, Sequences, FiniteSets, TLC

(***************************************************************************)
(* Bounds of the model.                                                    *)
(***************************************************************************)
NSteps == 3        \* number of entries of `deploy-steps`
MaxPolls == 2      \* non-terminal answers the remote gives within one wait
SlowCall == 70     \* seconds a slow remote call adds to the elapsed time

(***************************************************************************)
(* Program constants.                                                      *)
(***************************************************************************)
NO_VERSION == "-1"
DescribeTimeout == 60
DefaultTimeout == 3600
SecondsPerDay == 86400
SleepBase == 4

None == "None"                 \* Python's None
NotFound == "ParameterNotFound" \* the parameter is absent from the store

Versions == {"v1", "v2"}
StepIds == 1..NSteps

(***************************************************************************)
(* Stack statuses.  A status is the sequence of its words, the words being *)
(* joined by "_" in the source; str.endswith(w) for a single word w is the *)
(* test on the last word.                                                  *)
(***************************************************************************)
UPDATE_ROLLBACK_COMPLETE == <<"UPDATE", "ROLLBACK", "COMPLETE">>
ROLLBACK_COMPLETE == <<"ROLLBACK", "COMPLETE">>
DELETE_COMPLETE == <<"DELETE", "COMPLETE">>
CREATE_COMPLETE == <<"CREATE", "COMPLETE">>
UPDATE_COMPLETE == <<"UPDATE", "COMPLETE">>
UPDATE_IN_PROGRESS == <<"UPDATE", "IN", "PROGRESS">>
UPDATE_COMPLETE_CLEANUP_IN_PROGRESS ==
    <<"UPDATE", "COMPLETE", "CLEANUP", "IN", "PROGRESS">>
CREATE_FAILED == <<"CREATE", "FAILED">>
UPDATE_FAILED == <<"UPDATE", "FAILED">>
UPDATE_ROLLBACK_FAILED == <<"UPDATE", "ROLLBACK", "FAILED">>
DELETE_FAILED == <<"DELETE", "FAILED">>
DELETE_IN_PROGRESS == <<"DELETE", "IN", "PROGRESS">>
NoStatus == <<>>

StackStatuses ==
    { UPDATE_IN_PROGRESS, UPDATE_COMPLETE_CLEANUP_IN_PROGRESS,
      CREATE_COMPLETE, UPDATE_COMPLETE,
      UPDATE_ROLLBACK_COMPLETE, ROLLBACK_COMPLETE, DELETE_COMPLETE,
      CREATE_FAILED, UPDATE_FAILED, UPDATE_ROLLBACK_FAILED,
      DELETE_IN_PROGRESS, DELETE_FAILED }

endswith(status, word) == Len(status) > 0 /\ status[Len(status)] = word

\* stack.py:160 and stack.py:207
IsTerminal(status) == endswith(status, "FAILED") \/ endswith(status, "COMPLETE")

\* a list of bad statuses that misses the deleted stack
bad_statuses_short == { UPDATE_ROLLBACK_COMPLETE, ROLLBACK_COMPLETE }

\* stack.py:165-169
bad_statuses == { UPDATE_ROLLBACK_COMPLETE, ROLLBACK_COMPLETE, DELETE_COMPLETE }

(***************************************************************************)
(* Status reasons of a change set.  A reason is the sequence of its words  *)
(* and punctuation marks; `a in b` on strings is "a is a contiguous part   *)
(* of b".                                                                  *)
(***************************************************************************)
DidntContainChanges == <<"didn't", "contain", "changes">>
NoUpdates == <<"No", "updates", "are", "to", "be", "performed", ".">>

Reasons ==
    { <<"The", "submitted", "information", "didn't", "contain", "changes", ".">>,
      NoUpdates,
      <<"Error", ":", "No", "updates", "are", "to", "be", "performed", ".">>,
      <<"Resources", "didn't", "contain", "changes", "to", "apply">>,
      <<"Template", "format", "error">>,
      <<>> }

Contains(part, whole) ==
    \E k \in 0..(Len(whole) - Len(part)) :
        \A n \in 1..Len(part) : whole[k + n] = part[n]

\* both phrases looked for inside the reason
IsEmptyDiffReason_loose(reason) ==
    \/ Contains(DidntContainChanges, reason)
    \/ Contains(NoUpdates, reason)

\* stack.py:123-126
IsEmptyDiffReason(reason) ==
    \/ Contains(DidntContainChanges, reason)
    \/ reason = NoUpdates

(***************************************************************************)
(* utils.sleep                                                             *)
(***************************************************************************)
RECURSIVE IsqrtIn(_, _, _)
IsqrtIn(n, lo, hi) ==
    IF lo >= hi THEN lo
    ELSE LET mid == (lo + hi + 1) \div 2
         IN  IF mid <= n \div mid THEN IsqrtIn(n, mid, hi)
                               ELSE IsqrtIn(n, lo, mid - 1)

\* floor(sqrt(n)); mid * mid <= n is tested as mid <= n \div mid
Isqrt(n) == IsqrtIn(n, 0, n)

\* utils.py:33 : timedelta.seconds is the seconds part of the difference,
\* the whole days being held by timedelta.days
since_start(elapsed) == elapsed % SecondsPerDay

NoTimeout == -1     \* timeout=None

\* utils.py:35-37
SleepRaises(elapsed, timeout) ==
    timeout # NoTimeout /\ since_start(elapsed) > timeout

\* utils.py:39 : int((since_start ** 0.5) * 2.5) + 4, and
\* floor(sqrt(s) * 5 / 2) = floor(floor(sqrt(25 s)) / 2)
interval(elapsed) == (Isqrt(25 * since_start(elapsed)) \div 2) + SleepBase


(***************************************************************************)
(* Configuration: the parsed `deploy-steps`.                               *)
(***************************************************************************)
\* app.py:157-178 : a stack step deploys, rolls back and deletes its stack;
\* `on_delete` replaces the delete by a no-op ("pass") or by a named method,
\* unless ENNIO_DELETE_ALL is "true"
parse_stack_step(name, on_delete, ignore, delete_all_env) ==
    [ name |-> name,
      deploy |-> "stack.deploy",
      rollback |-> "stack.rollback",
      delete |-> IF delete_all_env \/ on_delete = None THEN "stack.delete"
                 ELSE IF on_delete = "pass" THEN "no_op" ELSE "method",
      ignore_error |-> ignore ]

\* app.py:180-198 : an operation step runs the same method to deploy and to
\* roll back, and deletes nothing unless `on_delete` names a method
parse_operation_step(name, on_delete, ignore) ==
    [ name |-> name,
      deploy |-> "method",
      rollback |-> "method",
      delete |-> IF on_delete = None THEN "no_op"
                 ELSE IF on_delete = "pass" THEN "no_op" ELSE "method",
      ignore_error |-> ignore ]

\* an entry of `deploy-steps`: `stack` or `operation`, `on_delete` (None
\* when absent) and ignore_error (app.py:97-100, False by default)
StepConfig(stack, on_delete, ignore) ==
    [ stack |-> stack, on_delete |-> on_delete, ignore_error |-> ignore ]

\* the stack or operation and the `on_delete` of every entry; the model
\* draws the lists of one kind of entry and one list that mixes two
Wirings ==
    { [n \in StepIds |-> <<TRUE, None>>],
      [n \in StepIds |-> <<TRUE, "pass">>],
      [n \in StepIds |-> <<FALSE, None>>],
      [n \in StepIds |-> <<FALSE, "method">>],
      [n \in StepIds |-> IF n % 2 = 1 THEN <<TRUE, None>>
                                      ELSE <<FALSE, "method">>] }

\* the `deploy-steps` sections the model draws from
StepLists ==
    { [n \in StepIds |-> StepConfig(w[n][1], w[n][2], g[n])] :
        w \in Wirings, g \in [StepIds -> BOOLEAN] }

\* app.py:134-144
parse_step(name, config, delete_all_env) ==
    IF config.stack
    THEN parse_stack_step(name, config.on_delete, config.ignore_error,
                          delete_all_env)
    ELSE parse_operation_step(name, config.on_delete, config.ignore_error)

parse_steps(configs, delete_all_env) ==
    [ n \in StepIds |-> parse_step(n, configs[n], delete_all_env) ]

(***************************************************************************)
(* State.                                                                  *)
(***************************************************************************)
VARIABLES
    steps,        \* EnnioApplication.steps, in deploy order
    store,        \* the SSM parameter /application-versions/<namespace>
    _version,     \* EnnioApplication._version, the cached version
    pc,           \* position of the orchestrator
    op,           \* the command that runs
    build,        \* argument of deploy_all
    idx,          \* position of the running loop in its list
    changed,      \* deploy_all's list `changed` (names of steps)
    result,       \* how the command ended
    no_rollback,  \* value of ENNIO_NO_ROLLBACK read by deploy_all
    \* the stack layer: one call of a step's operation
    call,         \* the operation that runs: [fn, step, arg]
    spc,          \* position inside the step's operation
    template,     \* the `template` argument of the running deploy_stack
    ret,          \* outcome of the step's operation
    exc,          \* exception raised by the method of the stack that ended
    elapsed,      \* seconds since `start` of the running wait
    slept,        \* the interval of the last time.sleep of the running wait
    polls,        \* non-terminal answers seen in the running wait
    timeout,      \* timeout of the running wait
    status,       \* the stack status the last wait stopped on
    cs,           \* what describe_change_set answered to the running
                  \* describe_changeset
    changes,      \* the change list gathered by describe_changeset
    remote,       \* the stack on the remote side, where it is followed: its
                  \* status and where the operation asked of it stands
    \* history of the run
    deployLog,    \* names of the steps whose deploy was invoked, in order
    rollbackLog,  \* <<name, version>> of every rollback invoked, in order
    deleteLog,    \* names of the steps whose delete was invoked, in order
    applied,      \* per step, the argument of its last deploy or rollback
                  \* that returned normally, whatever state that call left
                  \* the step's stack in
    store0,       \* content of the store when the command started
    accesses,     \* the last two accesses a caller of the application made
                  \* to its `version` property
    storeLog,     \* writes and deletes sent to the store, in order
    storeReads,   \* number of get_parameter calls
    cfnLog,       \* what the running step operation asked of CloudFormation:
                  \* the answer stack_exists got, and the state-changing
                  \* requests sent
    outcomes      \* <<operation, step, "ok" or "fail">> of every step
                  \* operation that ended, in order

appVars == <<steps, store, _version, pc, op, build, idx, changed, result,
             no_rollback>>
stackVars == <<call, spc, template, ret, exc, elapsed, slept, polls, timeout,
               status, cs, changes, remote>>
histVars == <<deployLog, rollbackLog, deleteLog, applied, store0, accesses,
              storeLog, storeReads, cfnLog, outcomes>>
\* the history but `outcomes`
logVars == <<deployLog, rollbackLog, deleteLog, applied, store0, accesses,
             storeLog, storeReads, cfnLog>>
vars == <<appVars, stackVars, histVars>>

NoCall == [fn |-> "none", step |-> 0, arg |-> None]
NoExc == <<>>
NoChangeSet ==
    [status |-> None, reason |-> <<>>, pages |-> <<>>, next |-> 0]
\* the remote side is not followed: any status is answered at any poll
NoRemote == [status |-> NoStatus, phase |-> "none"]

StackIdle ==
    /\ call = NoCall
    /\ spc = "idle"
    /\ template = None
    /\ ret = "none"
    /\ exc = NoExc
    /\ elapsed = 0
    /\ slept = 0
    /\ polls = 0
    /\ timeout = NoTimeout
    /\ status = NoStatus
    /\ cs = NoChangeSet
    /\ changes = None

Init ==
    /\ steps \in { parse_steps(c, e) : c \in StepLists, e \in BOOLEAN }
    /\ store \in {NotFound, "v1"}
    /\ _version = None
    /\ pc = "main"
    /\ op = None
    /\ build = None
    /\ idx = 0
    /\ changed = <<>>
    /\ result = "running"
    /\ no_rollback = None
    /\ StackIdle
    /\ remote = NoRemote
    /\ deployLog = <<>>
    /\ rollbackLog = <<>>
    /\ deleteLog = <<>>
    /\ applied = [n \in StepIds |-> store]
    /\ store0 = store
    /\ accesses = <<>>
    /\ storeLog = <<>>
    /\ storeReads = 0
    /\ cfnLog = <<>>
    /\ outcomes = <<>>


(***************************************************************************)
(* The version property (app.py:287-343).                                  *)
(***************************************************************************)
\* a getter that asks the store at every read
version_get_uncached(raises) ==
    /\ storeReads' = storeReads + 1
    /\ _version' = IF raises THEN _version
                   ELSE IF store = NotFound THEN NO_VERSION
                   ELSE store

\* app.py:287-310 : the getter reads the store only while nothing is cached;
\* ParameterNotFound gives NO_VERSION, any other error of the store is
\* raised and leaves the cache empty
version_get(raises) ==
    IF _version # None
    THEN /\ ~raises
         /\ UNCHANGED <<_version, storeReads>>
    ELSE /\ storeReads' = storeReads + 1
         /\ _version' = IF raises THEN _version
                        ELSE IF store = NotFound THEN NO_VERSION
                        ELSE store

\* a setter that assigns the cache and sends nothing to the store
version_set_cache_only(value, raises) ==
    /\ storeLog' = Append(storeLog, <<"put", value, ~raises>>)
    /\ store' = store
    /\ _version' = IF raises THEN _version ELSE value

\* a setter that assigns the cache before it writes to the store
version_set_cache_first(value, raises) ==
    /\ storeLog' = Append(storeLog, <<"put", value, ~raises>>)
    /\ store' = IF raises THEN store ELSE value
    /\ _version' = value

\* app.py:312-326 : put_parameter, then the cache; a failed put raises
\* before the cache is assigned
version_set(value, raises) ==
    /\ storeLog' = Append(storeLog, <<"put", value, ~raises>>)
    /\ store' = IF raises THEN store ELSE value
    /\ _version' = IF raises THEN _version ELSE value

\* a deleter for which a parameter that is not found is an error
version_del_strict(raises) ==
    /\ storeLog' = Append(storeLog, <<"delete", None, ~raises>>)
    /\ store' = IF raises THEN store ELSE NotFound
    /\ _version' = IF raises \/ store = NotFound THEN _version ELSE None

\* app.py:328-343 : delete_parameter, then the cache is emptied;
\* ParameterNotFound is caught, any other error of the store is raised
\* before the cache is emptied
version_del(raises) ==
    /\ storeLog' = Append(storeLog, <<"delete", None, ~raises>>)
    /\ store' = IF raises THEN store ELSE NotFound
    /\ _version' = IF raises THEN _version ELSE None

(***************************************************************************)
(* Calling a step's operation (app.py:386, 369, 421).                      *)
(***************************************************************************)
Invoke(fn, n, arg) ==
    /\ call' = [fn |-> fn, step |-> n, arg |-> arg]
    /\ spc' = "begin"
    /\ UNCHANGED <<template, ret, exc, elapsed, slept, polls, timeout, status, cs,
                   changes, remote>>

\* the callable the running call is bound to (app.py:162-168, 185-191)
Callable == steps[call.step][call.fn]

\* the call is over: its locals are gone
StackReturn ==
    /\ call' = NoCall
    /\ spc' = "idle"
    /\ template' = None
    /\ ret' = "none"
    /\ exc' = NoExc
    /\ elapsed' = 0
    /\ slept' = 0
    /\ polls' = 0
    /\ timeout' = NoTimeout
    /\ status' = NoStatus
    /\ cs' = NoChangeSet
    /\ changes' = None
    /\ remote' = remote
    /\ cfnLog' = <<>>

\* a step's operation ends: normally, or by raising an Exception
Finish(outcome) ==
    /\ spc' = "done"
    /\ ret' = outcome
    /\ outcomes' = Append(outcomes, <<call.fn, call.step, outcome>>)

\* Python's exit status: sys.exit(1), and an uncaught exception, end the
\* process with status 1
ExitStatus == IF result = "returned" THEN 0 ELSE 1


(***************************************************************************)
(* The orchestrator (app.py:357-425).                                      *)
(***************************************************************************)
\* values of the environment variable ENNIO_NO_ROLLBACK; unset reads as
\* "false" (app.py:405)
EnvValues == {"false", "True", "1"}

\* a comparison that forgets to lower the value
lower_forgotten(value) == value

\* str.lower on the values above
lower(value) == IF value = "True" THEN "true" ELSE value

\* a walk that forgets to reverse
reversed_forgotten(seq) == seq

\* Python's reversed(), read by position
reversed(seq) == [j \in 1..Len(seq) |-> seq[Len(seq) + 1 - j]]

\* every list rollback_all can be handed: steps in deploy order
RECURSIVE SubSeqsFrom(_)
SubSeqsFrom(n) ==
    IF n > NSteps THEN { <<>> }
    ELSE LET rest == SubSeqsFrom(n + 1)
         IN  rest \cup { <<n>> \o r : r \in rest }

ChangedLists == SubSeqsFrom(1)

\* app.py:376-380 : the log line reads self.version, then `changed = []`
deploy_all(b) ==
    /\ pc = "main"
    /\ op' = "deploy_all"
    /\ build' = b
    /\ \E raises \in BOOLEAN :
          /\ version_get(raises)
          /\ IF raises
             THEN pc' = "done" /\ result' = "raised" /\ idx' = idx
             ELSE pc' = "deploy_loop" /\ result' = result /\ idx' = 1
    /\ changed' = <<>>
    /\ UNCHANGED <<steps, store, no_rollback, stackVars>>
    /\ UNCHANGED <<deployLog, rollbackLog, deleteLog, applied, store0, accesses,
                   storeLog, cfnLog, outcomes>>

\* app.py:381-386 : the next step's deploy is called with the build
deploy_step ==
    /\ pc = "deploy_loop"
    /\ idx <= NSteps
    /\ pc' = "deploy_wait"
    /\ deployLog' = Append(deployLog, steps[idx].name)
    /\ Invoke("deploy", steps[idx].name, build)
    /\ UNCHANGED <<steps, store, _version, op, build, idx, changed, result,
                   no_rollback>>
    /\ UNCHANGED <<rollbackLog, deleteLog, applied, store0, accesses, storeLog,
                   storeReads, cfnLog, outcomes>>

\* a loop that goes on to the next step after every failure
deploy_step_done_continue ==
    /\ pc = "deploy_wait"
    /\ spc = "done"
    /\ IF ret = "ok"
       THEN /\ changed' = Append(changed, steps[idx].name)
            /\ applied' = [applied EXCEPT ![call.step] = call.arg]
       ELSE UNCHANGED <<changed, applied>>
    /\ idx' = idx + 1
    /\ pc' = "deploy_loop"
    /\ StackReturn
    /\ UNCHANGED <<steps, store, _version, op, build, result, no_rollback>>
    /\ UNCHANGED <<deployLog, rollbackLog, deleteLog, store0, accesses, storeLog,
                   storeReads, outcomes>>

\* a loop that breaks on every failure, ignore_error or not
deploy_step_done_strict ==
    /\ pc = "deploy_wait"
    /\ spc = "done"
    /\ IF ret = "ok"
       THEN /\ changed' = Append(changed, steps[idx].name)
            /\ applied' = [applied EXCEPT ![call.step] = call.arg]
            /\ idx' = idx + 1
            /\ pc' = "deploy_loop"
       ELSE /\ UNCHANGED <<changed, applied>>
            /\ idx' = idx
            /\ pc' = "deploy_failed"
    /\ StackReturn
    /\ UNCHANGED <<steps, store, _version, op, build, result, no_rollback>>
    /\ UNCHANGED <<deployLog, rollbackLog, deleteLog, store0, accesses, storeLog,
                   storeReads, outcomes>>

\* a loop that records a step whose failure it ignores
deploy_step_done_recorded ==
    /\ pc = "deploy_wait"
    /\ spc = "done"
    /\ IF ret = "ok" \/ steps[idx].ignore_error
       THEN /\ changed' = Append(changed, steps[idx].name)
            /\ applied' = [applied EXCEPT ![call.step] = call.arg]
            /\ idx' = idx + 1
            /\ pc' = "deploy_loop"
       ELSE /\ UNCHANGED <<changed, applied>>
            /\ idx' = idx
            /\ pc' = "deploy_failed"
    /\ StackReturn
    /\ UNCHANGED <<steps, store, _version, op, build, result, no_rollback>>
    /\ UNCHANGED <<deployLog, rollbackLog, deleteLog, store0, accesses, storeLog,
                   storeReads, outcomes>>

\* app.py:387-396 : a deploy that returned is appended to `changed`; one
\* that raised is skipped when ignore_error is set and breaks the loop
\* otherwise
deploy_step_done ==
    /\ pc = "deploy_wait"
    /\ spc = "done"
    /\ IF ret = "ok"
       THEN /\ changed' = Append(changed, steps[idx].name)
            /\ applied' = [applied EXCEPT ![call.step] = call.arg]
            /\ idx' = idx + 1
            /\ pc' = "deploy_loop"
       ELSE /\ UNCHANGED <<changed, applied>>
            /\ IF steps[idx].ignore_error
               THEN idx' = idx + 1 /\ pc' = "deploy_loop"
               ELSE idx' = idx /\ pc' = "deploy_failed"
    /\ StackReturn
    /\ UNCHANGED <<steps, store, _version, op, build, result, no_rollback>>
    /\ UNCHANGED <<deployLog, rollbackLog, deleteLog, store0, accesses, storeLog,
                   storeReads, outcomes>>

\* app.py:397-403 : the loop ended without break: the build is written to
\* the store and deploy_all returns
deploy_all_else ==
    /\ pc = "deploy_loop"
    /\ idx > NSteps
    /\ \E raises \in BOOLEAN :
          /\ version_set(build, raises)
          /\ result' = IF raises THEN "raised" ELSE "returned"
    /\ pc' = "done"
    /\ UNCHANGED <<steps, op, build, idx, changed, no_rollback, stackVars>>
    /\ UNCHANGED <<deployLog, rollbackLog, deleteLog, applied, store0, accesses,
                   storeReads, cfnLog, outcomes>>

\* a rollback_all without the test on NO_VERSION
rollback_all_begin_unguarded(after) ==
    pc' = "rollback_loop" /\ idx' = 1

\* app.py:357-365 : rollback_all returns at once when the current version
\* is NO_VERSION, and walks reversed(changed) otherwise
rollback_all_begin(after) ==
    IF _version' = NO_VERSION
    THEN pc' = after /\ idx' = idx
    ELSE pc' = "rollback_loop" /\ idx' = 1

\* app.py:405-409 : after a break, rollback_all(changed) unless
\* ENNIO_NO_ROLLBACK is "true"
deploy_all_break ==
    /\ pc = "deploy_failed"
    /\ changed' = changed
    /\ \E env \in EnvValues :
          /\ no_rollback' = env
          /\ IF lower(env) = "true"
             THEN pc' = "sys_exit" /\ UNCHANGED <<idx, _version, storeReads>>
             ELSE /\ version_get(FALSE)
                  /\ rollback_all_begin("sys_exit")
    /\ UNCHANGED <<steps, store, op, build, result, stackVars>>
    /\ UNCHANGED <<deployLog, rollbackLog, deleteLog, applied, store0, accesses,
                   storeLog, cfnLog, outcomes>>

\* app.py:357 : rollback_all called on its own with a list of steps
rollback_all(list) ==
    /\ pc = "main"
    /\ op' = "rollback_all"
    /\ changed' = list
    /\ \E raises \in BOOLEAN :
          /\ version_get(raises)
          /\ IF raises
             THEN pc' = "done" /\ result' = "raised" /\ idx' = idx
             ELSE rollback_all_begin("return") /\ result' = result
    /\ UNCHANGED <<steps, store, build, no_rollback, stackVars>>
    /\ UNCHANGED <<deployLog, rollbackLog, deleteLog, applied, store0, accesses,
                   storeLog, cfnLog, outcomes>>

\* a rollback that is called with the build that failed
rollback_step_build ==
    /\ pc = "rollback_loop"
    /\ idx <= Len(changed)
    /\ pc' = "rollback_wait"
    /\ LET step == steps[reversed(changed)[idx]]
       IN  /\ rollbackLog' = Append(rollbackLog, <<step.name, _version>>)
           /\ Invoke("rollback", step.name, build)
    /\ UNCHANGED <<steps, store, _version, op, build, idx, changed, result,
                   no_rollback>>
    /\ UNCHANGED <<deployLog, deleteLog, applied, store0, accesses, storeLog,
                   storeReads, cfnLog, outcomes>>

\* app.py:365-369 : the step's rollback is called with self.version
rollback_step ==
    /\ pc = "rollback_loop"
    /\ idx <= Len(changed)
    /\ pc' = "rollback_wait"
    /\ LET step == steps[reversed(changed)[idx]]
       IN  /\ rollbackLog' = Append(rollbackLog, <<step.name, _version>>)
           /\ Invoke("rollback", step.name, _version)
    /\ UNCHANGED <<steps, store, _version, op, build, idx, changed, result,
                   no_rollback>>
    /\ UNCHANGED <<deployLog, deleteLog, applied, store0, accesses, storeLog,
                   storeReads, cfnLog, outcomes>>

\* a walk that goes on after a failed rollback when ignore_error is set
rollback_step_done_ignore ==
    /\ pc = "rollback_wait"
    /\ spc = "done"
    /\ IF ret = "ok" \/ steps[call.step].ignore_error
       THEN /\ applied' = IF ret = "ok"
                          THEN [applied EXCEPT ![call.step] = call.arg]
                          ELSE applied
            /\ idx' = idx + 1
            /\ pc' = "rollback_loop"
            /\ result' = result
       ELSE /\ applied' = applied
            /\ idx' = idx
            /\ pc' = "done"
            /\ result' = "raised"
    /\ StackReturn
    /\ UNCHANGED <<steps, store, _version, op, build, changed, no_rollback>>
    /\ UNCHANGED <<deployLog, rollbackLog, deleteLog, store0, accesses, storeLog,
                   storeReads, outcomes>>

\* app.py:369-370 : a rollback that returned leads to the step before it; one
\* that raised ends rollback_all, and deploy_all with it, by the exception
rollback_step_done ==
    /\ pc = "rollback_wait"
    /\ spc = "done"
    /\ IF ret = "ok"
       THEN /\ applied' = [applied EXCEPT ![call.step] = call.arg]
            /\ idx' = idx + 1
            /\ pc' = "rollback_loop"
            /\ result' = result
       ELSE /\ applied' = applied
            /\ idx' = idx
            /\ pc' = "done"
            /\ result' = "raised"
    /\ StackReturn
    /\ UNCHANGED <<steps, store, _version, op, build, changed, no_rollback>>
    /\ UNCHANGED <<deployLog, rollbackLog, deleteLog, store0, accesses, storeLog,
                   storeReads, outcomes>>

\* app.py:371 : the walk is over and rollback_all returns to its caller
rollback_all_return ==
    /\ pc = "rollback_loop"
    /\ idx > Len(changed)
    /\ pc' = IF op = "deploy_all" THEN "sys_exit" ELSE "return"
    /\ UNCHANGED <<steps, store, _version, op, build, idx, changed, result,
                   no_rollback>>
    /\ UNCHANGED <<stackVars, histVars>>

\* app.py:410 : sys.exit(1)
sys_exit ==
    /\ pc = "sys_exit"
    /\ pc' = "done"
    /\ result' = "exit1"
    /\ UNCHANGED <<steps, store, _version, op, build, idx, changed,
                   no_rollback>>
    /\ UNCHANGED <<stackVars, histVars>>

\* the command returns to main, and the process ends with status 0
return ==
    /\ pc = "return"
    /\ pc' = "done"
    /\ result' = "returned"
    /\ UNCHANGED <<steps, store, _version, op, build, idx, changed,
                   no_rollback>>
    /\ UNCHANGED <<stackVars, histVars>>

\* a delete_all that removes the version from the store before the walk
delete_all_clears ==
    /\ pc = "main"
    /\ op' = "delete_all"
    /\ \E raises \in BOOLEAN :
          /\ version_get(raises)
          /\ IF raises
             THEN pc' = "done" /\ result' = "raised" /\ idx' = idx
             ELSE pc' = "delete_loop" /\ result' = result /\ idx' = 1
    /\ store' = NotFound
    /\ storeLog' = Append(storeLog, <<"delete", None, TRUE>>)
    /\ UNCHANGED <<steps, build, changed, no_rollback, stackVars>>
    /\ UNCHANGED <<deployLog, rollbackLog, deleteLog, applied, store0, accesses,
                   cfnLog, outcomes>>

\* app.py:412-416 : the log line reads self.version; reversed(self.steps)
\* is walked
delete_all ==
    /\ pc = "main"
    /\ op' = "delete_all"
    /\ \E raises \in BOOLEAN :
          /\ version_get(raises)
          /\ IF raises
             THEN pc' = "done" /\ result' = "raised" /\ idx' = idx
             ELSE pc' = "delete_loop" /\ result' = result /\ idx' = 1
    /\ UNCHANGED <<steps, store, build, changed, no_rollback, stackVars>>
    /\ UNCHANGED <<deployLog, rollbackLog, deleteLog, applied, store0, accesses,
                   storeLog, cfnLog, outcomes>>

\* app.py:417-421 : the step's delete is called
delete_step ==
    /\ pc = "delete_loop"
    /\ idx <= NSteps
    /\ pc' = "delete_wait"
    /\ LET step == reversed(steps)[idx]
       IN  /\ deleteLog' = Append(deleteLog, step.name)
           /\ Invoke("delete", step.name, None)
    /\ UNCHANGED <<steps, store, _version, op, build, idx, changed, result,
                   no_rollback>>
    /\ UNCHANGED <<deployLog, rollbackLog, applied, store0, accesses, storeLog,
                   storeReads, cfnLog, outcomes>>

\* a delete loop that goes on after a failure when ignore_error is set
delete_step_done_ignore ==
    /\ pc = "delete_wait"
    /\ spc = "done"
    /\ IF ret = "ok" \/ steps[call.step].ignore_error
       THEN idx' = idx + 1 /\ pc' = "delete_loop"
       ELSE idx' = idx /\ pc' = "return"
    /\ StackReturn
    /\ UNCHANGED <<steps, store, _version, op, build, changed, result,
                   no_rollback>>
    /\ UNCHANGED <<deployLog, rollbackLog, deleteLog, applied, store0, accesses,
                   storeLog, storeReads, outcomes>>

\* a delete loop that lets the exception of a failed delete through
delete_step_done_raises ==
    /\ pc = "delete_wait"
    /\ spc = "done"
    /\ IF ret = "ok"
       THEN idx' = idx + 1 /\ pc' = "delete_loop" /\ result' = result
       ELSE idx' = idx /\ pc' = "done" /\ result' = "raised"
    /\ StackReturn
    /\ UNCHANGED <<steps, store, _version, op, build, changed, no_rollback>>
    /\ UNCHANGED <<deployLog, rollbackLog, deleteLog, applied, store0, accesses,
                   storeLog, storeReads, outcomes>>

\* app.py:422-425 : a delete that raised breaks the loop, and delete_all
\* returns
delete_step_done ==
    /\ pc = "delete_wait"
    /\ spc = "done"
    /\ IF ret = "ok"
       THEN idx' = idx + 1 /\ pc' = "delete_loop"
       ELSE idx' = idx /\ pc' = "return"
    /\ StackReturn
    /\ UNCHANGED <<steps, store, _version, op, build, changed, result,
                   no_rollback>>
    /\ UNCHANGED <<deployLog, rollbackLog, deleteLog, applied, store0, accesses,
                   storeLog, storeReads, outcomes>>

\* app.py:416 : no step is left, delete_all returns
delete_all_return ==
    /\ pc = "delete_loop"
    /\ idx > NSteps
    /\ pc' = "return"
    /\ UNCHANGED <<steps, store, _version, op, build, idx, changed, result,
                   no_rollback>>
    /\ UNCHANGED <<stackVars, histVars>>

(***************************************************************************)
(* Step operations that are not a stack's: a named method of the           *)
(* application or of a stack, and the no-op of `on_delete: pass`.          *)
(***************************************************************************)
\* app.py:146-155 : the method is user code; it returns or it raises
method_run ==
    /\ spc = "begin"
    /\ Callable = "method"
    /\ \E outcome \in {"ok", "fail"} : Finish(outcome)
    /\ UNCHANGED <<call, remote, template, exc, elapsed, slept, polls, timeout, status, cs, changes>>
    /\ UNCHANGED <<appVars, logVars>>

\* app.py:159, 182 : no_op logs and returns
no_op_run ==
    /\ spc = "begin"
    /\ Callable = "no_op"
    /\ Finish("ok")
    /\ UNCHANGED <<call, remote, template, exc, elapsed, slept, polls, timeout, status, cs, changes>>
    /\ UNCHANGED <<appVars, logVars>>


(***************************************************************************)
(* The stack (stack.py): the changeset protocol.  stack.deploy is defined  *)
(* by the subclass of the application at hand; the model takes the deploy  *)
(* the protocol is written for, a call of deploy_stack, and stack.rollback *)
(* is that deploy with the version to return to (stack.py:216-223).        *)
(*                                                                         *)
(* A wait keeps `elapsed`, the seconds since its `start`.  A status that   *)
(* does not stop a wait is only logged by the source, and is not kept.     *)
(***************************************************************************)
ShortTimeout == 30

\* what the remote call of one poll adds to the elapsed time
Latencies == {0, SlowCall}
\* the `timeout` arguments of deploy_stack (stack.py:173)
Timeouts == {DefaultTimeout, ShortTimeout}
\* create_changeset's `template` argument, by the two tests made on it
\* (stack.py:97-100): os.path.isfile(template), template.startswith("http")
Templates == [isfile : BOOLEAN, http : BOOLEAN]

\* the answers of stack_exists (stack.py:55-65): describe_stacks answered,
\* it raised "does not exist", or it raised another error, which is raised on
Existence == {"yes", "no", "error"}

ChangeSetStatuses ==
    {"CREATE_PENDING", "CREATE_IN_PROGRESS", "CREATE_COMPLETE", "FAILED"}
ExecutionStatuses == {"UNAVAILABLE", "AVAILABLE"}

\* the pages a ready change set is answered in: the change list cut in at
\* most MaxPages pages, a page that has a successor carrying a NextToken
MaxPages == 2
ChangeList == <<"c1", "c2", "c3">>

RECURSIVE Cuts(_, _)
Cuts(seq, n) ==
    { <<seq>> } \cup
    IF n < 2 THEN {}
    ELSE UNION { { <<SubSeq(seq, 1, k)>> \o rest :
                     rest \in Cuts(SubSeq(seq, k + 1, Len(seq)), n - 1) } :
                 k \in 1..(Len(seq) - 1) }

Pagings == Cuts(ChangeList, MaxPages)

TimeoutError == <<"RuntimeError", "Operation timeout">>
ClientError == <<"ClientError", "">>
EmptyChangeSetError == <<"EmptyChangeSetError", "">>

\* a method of the stack ends by raising
Raise(e, at) ==
    /\ exc' = e
    /\ spc' = at

\* utils.py:31-41 as one turn of a wait: TRUE when sleep returned, after
\* `interval` seconds, the call that follows taking `latency` more
Slept(latency) ==
    /\ ~SleepRaises(elapsed, timeout)
    /\ slept' = interval(elapsed)
    /\ elapsed' = elapsed + slept' + latency

\* the wait is left
WaitOver ==
    /\ elapsed' = 0
    /\ slept' = 0
    /\ polls' = 0
    /\ timeout' = NoTimeout

\* stack.py:112 : start = datetime.now()
WaitStarts(t) ==
    /\ elapsed' = 0
    /\ slept' = 0
    /\ polls' = 0
    /\ timeout' = t

\* stack.py:173-178 : deploy_stack is called with the template of the
\* stack, and calls create_changeset
deploy_stack ==
    /\ spc = "begin"
    /\ Callable \in {"stack.deploy", "stack.rollback"}
    /\ \E t \in Templates : template' = t
    /\ spc' = "create_changeset"
    /\ UNCHANGED <<call, remote, ret, exc, elapsed, slept, polls, timeout, status, cs, changes>>
    /\ UNCHANGED <<appVars, histVars>>

\* a create_changeset that always asks for an UPDATE
ChangeSetType_update(exists) == "UPDATE"

\* stack.py:95
ChangeSetType(exists) == IF exists = "yes" THEN "UPDATE" ELSE "CREATE"

\* stack.py:83-106 with stack_exists, stack.py:55-65 : the change set is of
\* type UPDATE for a stack that exists and CREATE otherwise; a template that
\* is neither a file nor a string that starts with "http" raises before
\* anything is submitted.  describe_changeset follows (stack.py:110-112).
create_changeset ==
    /\ spc = "create_changeset"
    /\ \E exists \in Existence, accepted \in BOOLEAN :
          IF exists = "error"
          THEN /\ Raise(ClientError, "deployed")
               /\ UNCHANGED <<elapsed, slept, polls, timeout, cfnLog>>
          ELSE LET asked == Append(cfnLog, <<"stack_exists", exists>>)
               IN  IF ~template.isfile /\ ~template.http
                   THEN /\ Raise(<<"RuntimeError", "Bad template">>, "deployed")
                        /\ cfnLog' = asked
                        /\ UNCHANGED <<elapsed, slept, polls, timeout>>
                   ELSE /\ cfnLog' = Append(asked, <<"create_change_set",
                                                     ChangeSetType(exists)>>)
                        /\ IF accepted
                           THEN /\ WaitStarts(DescribeTimeout)
                                /\ spc' = "describe_changeset"
                                /\ exc' = exc
                           ELSE /\ Raise(ClientError, "deployed")
                                /\ UNCHANGED <<elapsed, slept, polls, timeout>>
    /\ template' = None
    /\ UNCHANGED <<call, remote, ret, status, cs, changes>>
    /\ UNCHANGED <<appVars, deployLog, rollbackLog, deleteLog, applied, store0,
                   accesses, storeLog, storeReads, outcomes>>

\* stack.py:113-138 : one turn of the loop of describe_changeset: sleep,
\* then read the change set
describe_changeset ==
    /\ spc = "describe_changeset"
    /\ IF SleepRaises(elapsed, timeout)
       THEN /\ Raise(TimeoutError, "described")
            /\ WaitOver
            /\ UNCHANGED <<cs, changes>>
       ELSE \E latency \in Latencies :
            \/ /\ Raise(ClientError, "described")
               /\ WaitOver
               /\ UNCHANGED <<cs, changes>>
            \/ \E st \in ChangeSetStatuses, ex \in ExecutionStatuses :
                  IF st = "FAILED"
                  THEN \E reason \in Reasons :
                       /\ cs' = [cs EXCEPT !.status = st, !.reason = reason]
                       /\ IF IsEmptyDiffReason(reason)
                          THEN Raise(EmptyChangeSetError, "described")
                          ELSE Raise(<<"RuntimeError",
                                       "Failed to create changeset">>,
                                     "described")
                       /\ WaitOver
                       /\ changes' = changes
                  ELSE IF st = "CREATE_COMPLETE" /\ ex = "AVAILABLE"
                  THEN \E pages \in Pagings :
                       /\ changes' = pages[1]
                       /\ exc' = exc
                       /\ WaitOver
                       /\ IF Len(pages) = 1
                          THEN /\ cs' = [cs EXCEPT !.status = st,
                                                   !.pages = pages]
                               /\ spc' = "described"
                          ELSE /\ cs' = [cs EXCEPT !.status = st,
                                                   !.pages = pages,
                                                   !.next = 2]
                               /\ spc' = "describe_pages"
                  ELSE /\ polls < MaxPolls
                       /\ polls' = polls + 1
                       /\ Slept(latency)
                       /\ UNCHANGED <<spc, exc, cs, changes, timeout>>
    /\ UNCHANGED <<call, remote, template, ret, status>>
    /\ UNCHANGED <<appVars, histVars>>

\* a page put in front of the changes gathered so far
Extended_front(list, page) == page \o list

\* stack.py:142 : changes += response["Changes"]
Extended(list, page) == list \o page

\* stack.py:140-146 : the pages after the first are read with the token of
\* the page before and appended
describe_changeset_page ==
    /\ spc = "describe_pages"
    /\ \/ /\ Raise(ClientError, "described")
          /\ UNCHANGED <<cs, changes>>
       \/ /\ changes' = Extended(changes, cs.pages[cs.next])
          /\ exc' = exc
          /\ IF cs.next < Len(cs.pages)
             THEN cs' = [cs EXCEPT !.next = cs.next + 1] /\ spc' = spc
             ELSE cs' = [cs EXCEPT !.next = 0] /\ spc' = "described"
    /\ UNCHANGED <<call, remote, template, ret, elapsed, slept, polls, timeout, status>>
    /\ UNCHANGED <<appVars, histVars>>

\* a deploy_stack that does not catch EmptyChangeSetError
deploy_stack_described_uncaught ==
    /\ spc = "described"
    /\ IF exc # NoExc
       THEN UNCHANGED <<exc, changes>> /\ spc' = "deployed"
       ELSE UNCHANGED <<exc, changes>> /\ spc' = "execute_changeset"
    /\ cs' = [cs EXCEPT !.pages = <<>>]
    /\ UNCHANGED <<call, remote, template, ret, elapsed, slept, polls, timeout, status>>
    /\ UNCHANGED <<appVars, histVars>>

\* stack.py:179-187 : deploy_stack takes describe_changeset's outcome: an
\* EmptyChangeSetError ends the deploy with no changes, any other exception
\* goes on to the caller, a change list is executed
deploy_stack_described ==
    /\ spc = "described"
    /\ IF exc = EmptyChangeSetError
       THEN /\ exc' = NoExc
            /\ changes' = None
            /\ spc' = "deployed"
       ELSE IF exc # NoExc
       THEN UNCHANGED <<exc, changes>> /\ spc' = "deployed"
       ELSE UNCHANGED <<exc, changes>> /\ spc' = "execute_changeset"
    /\ cs' = [cs EXCEPT !.pages = <<>>]
    /\ UNCHANGED <<call, remote, template, ret, elapsed, slept, polls, timeout, status>>
    /\ UNCHANGED <<appVars, histVars>>

\* stack.py:148-155 : execute_change_set is sent and the wait starts with
\* the timeout deploy_stack was given
execute_changeset ==
    /\ spc = "execute_changeset"
    /\ cfnLog' = Append(cfnLog, <<"execute_change_set", None>>)
    /\ \/ Raise(ClientError, "deployed") /\ UNCHANGED <<elapsed, slept, polls, timeout>>
       \/ /\ \E t \in Timeouts : WaitStarts(t)
          /\ spc' = "execute_wait"
          /\ exc' = exc
    /\ UNCHANGED <<call, remote, template, ret, status, cs, changes>>
    /\ UNCHANGED <<appVars, deployLog, rollbackLog, deleteLog, applied, store0,
                   accesses, storeLog, storeReads, outcomes>>

\* stack.py:156-162, 207-209 : one turn of the loop of a wait on the stack:
\* sleep, then read the status of the stack; a status that ends in FAILED
\* or COMPLETE breaks the loop
stack_wait(stopped, failed) ==
    IF SleepRaises(elapsed, timeout)
    THEN /\ Raise(TimeoutError, failed)
         /\ WaitOver
         /\ status' = status
    ELSE \E latency \in Latencies :
         \/ /\ Raise(ClientError, failed)
            /\ WaitOver
            /\ status' = status
         \/ \E st \in StackStatuses :
               IF IsTerminal(st)
               THEN /\ status' = st
                    /\ spc' = stopped
                    /\ exc' = exc
                    /\ WaitOver
               ELSE /\ polls < MaxPolls
                    /\ polls' = polls + 1
                    /\ Slept(latency)
                    /\ UNCHANGED <<spc, exc, status, timeout>>

\* stack.py:156-162
execute_changeset_wait ==
    /\ spc = "execute_wait"
    /\ stack_wait("execute_stopped", "deployed")
    /\ UNCHANGED <<call, remote, template, ret, cs, changes>>
    /\ UNCHANGED <<appVars, histVars>>

\* stack.py:164-171 : after the loop, a status among bad_statuses raises
execute_changeset_end ==
    /\ spc = "execute_stopped"
    /\ IF status \in bad_statuses
       THEN Raise(<<"RuntimeError", "Failed to create/update stack.">>,
                  "deployed")
       ELSE spc' = "deployed" /\ exc' = exc
    /\ UNCHANGED <<call, remote, template, ret, elapsed, slept, polls, timeout, status, cs, changes>>
    /\ UNCHANGED <<appVars, histVars>>

\* stack.py:183, 188 and an exception leaving deploy_stack: the step's
\* deploy, or rollback, is over
deploy_stack_return ==
    /\ spc = "deployed"
    /\ Finish(IF exc = NoExc THEN "ok" ELSE "fail")
    /\ UNCHANGED <<call, remote, template, exc, elapsed, slept, polls, timeout, status, cs, changes>>
    /\ UNCHANGED <<appVars, logVars>>

\* stack.py:190-202 : delete_stack returns at once for a stack that does not
\* exist; otherwise delete_stack is sent and the wait starts, with no
\* timeout
delete_stack ==
    /\ spc = "begin"
    /\ Callable = "stack.delete"
    /\ \E exists \in Existence, described \in BOOLEAN, accepted \in BOOLEAN :
          IF exists = "error"
          THEN Raise(ClientError, "deleted") /\ cfnLog' = cfnLog
          ELSE LET asked == Append(cfnLog, <<"stack_exists", exists>>)
               IN  IF exists = "no"
                   THEN spc' = "deleted" /\ exc' = exc /\ cfnLog' = asked
                   ELSE IF ~described
                   THEN Raise(ClientError, "deleted") /\ cfnLog' = asked
                   ELSE /\ cfnLog' = Append(asked, <<"delete_stack", None>>)
                        /\ IF accepted
                           THEN spc' = "delete_wait" /\ exc' = exc
                           ELSE Raise(ClientError, "deleted")
    /\ WaitStarts(NoTimeout)
    /\ UNCHANGED <<call, remote, template, ret, status, cs, changes>>
    /\ UNCHANGED <<appVars, deployLog, rollbackLog, deleteLog, applied, store0,
                   accesses, storeLog, storeReads, outcomes>>

\* stack.py:203-209
delete_stack_wait ==
    /\ spc = "delete_wait"
    /\ stack_wait("delete_stopped", "deleted")
    /\ UNCHANGED <<call, remote, template, ret, cs, changes>>
    /\ UNCHANGED <<appVars, histVars>>

\* a delete_stack that takes every status that ends in COMPLETE for a
\* deleted stack
delete_stack_end_lenient ==
    /\ spc = "delete_stopped"
    /\ IF ~endswith(status, "COMPLETE")
       THEN Raise(<<"RuntimeError", "Failed to delete stack.">>, "deleted")
       ELSE spc' = "deleted" /\ exc' = exc
    /\ UNCHANGED <<call, remote, template, ret, elapsed, slept, polls, timeout, status, cs,
                   changes>>
    /\ UNCHANGED <<appVars, histVars>>

\* stack.py:211-214 : after the loop, any status but DELETE_COMPLETE raises
delete_stack_end ==
    /\ spc = "delete_stopped"
    /\ IF status # DELETE_COMPLETE
       THEN Raise(<<"RuntimeError", "Failed to delete stack.">>, "deleted")
       ELSE spc' = "deleted" /\ exc' = exc
    /\ UNCHANGED <<call, remote, template, ret, elapsed, slept, polls, timeout, status, cs, changes>>
    /\ UNCHANGED <<appVars, histVars>>

\* stack.py:228-230 : stack.delete is over
delete_stack_return ==
    /\ spc = "deleted"
    /\ Finish(IF exc = NoExc THEN "ok" ELSE "fail")
    /\ UNCHANGED <<call, remote, template, exc, elapsed, slept, polls, timeout, status, cs, changes>>
    /\ UNCHANGED <<appVars, logVars>>

(***************************************************************************)
(* The specification.                                                      *)
(***************************************************************************)
Next ==
    \/ \E b \in Versions : deploy_all(b)
    \/ deploy_step
    \/ deploy_step_done
    \/ deploy_all_else
    \/ deploy_all_break
    \/ \E list \in ChangedLists : rollback_all(list)
    \/ rollback_step
    \/ rollback_step_done
    \/ rollback_all_return
    \/ sys_exit
    \/ return
    \/ delete_all
    \/ delete_step
    \/ delete_step_done
    \/ delete_all_return
    \/ method_run
    \/ no_op_run
    \/ deploy_stack
    \/ create_changeset
    \/ describe_changeset
    \/ describe_changeset_page
    \/ deploy_stack_described
    \/ execute_changeset
    \/ execute_changeset_wait
    \/ execute_changeset_end
    \/ deploy_stack_return
    \/ delete_stack
    \/ delete_stack_wait
    \/ delete_stack_end
    \/ delete_stack_return

Spec == Init /\ [][Next]_vars

(***************************************************************************)
(* The version property on its own: a caller that holds the application    *)
(* (a subclass, an extra command) reads, sets and deletes `version`.       *)
(***************************************************************************)
MaxAccesses == 3   \* accesses that reach the store

\* one access: what was cached and stored before it, and how it ended
Access(name, arg, raises, fetched, value) ==
    [ op |-> name, arg |-> arg, raised |-> raises, cached |-> _version,
      stored |-> store, fetched |-> fetched, value |-> value ]

Noted(access) ==
    accesses' = IF accesses = <<>> THEN <<access>>
                ELSE <<accesses[Len(accesses)], access>>

StoreCalls == Len(storeLog) + storeReads

\* app.py:287-310 : value = app.version
version_getter ==
    /\ StoreCalls < MaxAccesses
    /\ \E raises \in BOOLEAN :
          /\ version_get(raises)
          /\ Noted(Access("get", None, raises, storeReads' # storeReads,
                          IF raises THEN None ELSE _version'))
    /\ UNCHANGED <<steps, store, pc, op, build, idx, changed, result,
                   no_rollback, stackVars>>
    /\ UNCHANGED <<deployLog, rollbackLog, deleteLog, applied, store0,
                   storeLog, cfnLog, outcomes>>

\* app.py:312-326 : app.version = value
version_setter(value) ==
    /\ StoreCalls < MaxAccesses
    /\ \E raises \in BOOLEAN :
          /\ version_set(value, raises)
          /\ Noted(Access("set", value, raises, FALSE, None))
    /\ UNCHANGED <<steps, pc, op, build, idx, changed, result, no_rollback,
                   stackVars>>
    /\ UNCHANGED <<deployLog, rollbackLog, deleteLog, applied, store0,
                   storeReads, cfnLog, outcomes>>

\* app.py:328-343 : del app.version
version_deleter ==
    /\ StoreCalls < MaxAccesses
    /\ \E raises \in BOOLEAN :
          /\ version_del(raises)
          /\ Noted(Access("delete", None, raises, FALSE, None))
    /\ UNCHANGED <<steps, pc, op, build, idx, changed, result, no_rollback,
                   stackVars>>
    /\ UNCHANGED <<deployLog, rollbackLog, deleteLog, applied, store0,
                   storeReads, cfnLog, outcomes>>

InitVersion ==
    /\ Init
    /\ steps = parse_steps([n \in StepIds |-> StepConfig(TRUE, None, FALSE)],
                           FALSE)

NextVersion ==
    \/ version_getter
    \/ \E value \in Versions : version_setter(value)
    \/ version_deleter

SpecVersion == InitVersion /\ [][NextVersion]_vars

(***************************************************************************)
(* utils.sleep on its own: one wait whose remote never reaches a terminal  *)
(* state, so that the loop calls sleep(start, timeout) again and again.    *)
(***************************************************************************)
MaxElapsed == 87000   \* the wait is followed until this many seconds

\* the `timeout` arguments of the waits: none (stack.py:204), and those of
\* describe_changeset and execute_changeset
SleepTimeouts == {NoTimeout, DescribeTimeout} \cup Timeouts

\* stack.py:112, 155, 202 : start = datetime.now()
wait_starts(t) ==
    /\ spc = "idle"
    /\ spc' = "wait"
    /\ WaitStarts(t)
    /\ UNCHANGED <<call, remote, template, ret, exc, status, cs, changes>>
    /\ UNCHANGED <<appVars, histVars>>

\* utils.py:31-41 : sleep(start, timeout), and the poll that follows it
sleep(latency) ==
    /\ spc = "wait"
    /\ elapsed <= MaxElapsed
    /\ IF SleepRaises(elapsed, timeout)
       THEN /\ Raise(TimeoutError, "raised")
            /\ UNCHANGED <<elapsed, slept>>
       ELSE /\ Slept(latency)
            /\ UNCHANGED <<spc, exc>>
    /\ UNCHANGED <<call, remote, template, ret, polls, timeout, status, cs, changes>>
    /\ UNCHANGED <<appVars, histVars>>

NextSleep ==
    \/ \E t \in SleepTimeouts : wait_starts(t)
    \/ \E latency \in Latencies : sleep(latency)

SpecSleep == InitVersion /\ [][NextSleep]_vars


(***************************************************************************)
(* execute_changeset against a stack that is followed on the remote side.  *)
(* CloudFormation accepts execute_change_set and works on the stack on its *)
(* own: the status of the stack is still the one the last operation left   *)
(* until the execution starts, then UPDATE_IN_PROGRESS, then the status    *)
(* the execution ends on.  describe_stacks answers the status of the       *)
(* moment.                                                                 *)
(***************************************************************************)
\* the status an update finds on the stack: what the last operation left
StatusesBefore == { CREATE_COMPLETE, UPDATE_COMPLETE, UPDATE_ROLLBACK_COMPLETE }

\* the status an execution ends on
StatusesAfter ==
    { UPDATE_COMPLETE, UPDATE_ROLLBACK_COMPLETE, UPDATE_FAILED,
      UPDATE_ROLLBACK_FAILED }

\* stack.py:150-155 : execute_change_set is accepted, and the wait starts
execute_change_set(t) ==
    /\ spc = "idle"
    /\ remote = NoRemote
    /\ \E before \in StatusesBefore :
          remote' = [status |-> before, phase |-> "accepted"]
    /\ cfnLog' = Append(cfnLog, <<"execute_change_set", None>>)
    /\ spc' = "execute_wait"
    /\ WaitStarts(t)
    /\ UNCHANGED <<call, template, ret, exc, status, cs, changes>>
    /\ UNCHANGED <<appVars, deployLog, rollbackLog, deleteLog, applied, store0,
                   accesses, storeLog, storeReads, outcomes>>

\* the remote side starts the execution it accepted
execution_starts ==
    /\ remote.phase = "accepted"
    /\ remote' = [status |-> UPDATE_IN_PROGRESS, phase |-> "running"]
    /\ UNCHANGED <<call, spc, template, ret, exc, elapsed, slept, polls,
                   timeout, status, cs, changes>>
    /\ UNCHANGED <<appVars, histVars>>

\* the remote side ends the execution
execution_ends ==
    /\ remote.phase = "running"
    /\ \E after \in StatusesAfter :
          remote' = [status |-> after, phase |-> "finished"]
    /\ UNCHANGED <<call, spc, template, ret, exc, elapsed, slept, polls,
                   timeout, status, cs, changes>>
    /\ UNCHANGED <<appVars, histVars>>

\* stack.py:156-162 : one turn of the loop of execute_changeset, where
\* describe_stacks answers the status the stack has at that moment
describe_stacks ==
    /\ remote # NoRemote
    /\ execute_changeset_wait
    /\ spc' = "execute_stopped" => status' = remote.status
    /\ spc' = "execute_wait" => ~IsTerminal(remote.status)

NextRemote ==
    \/ \E t \in Timeouts : execute_change_set(t)
    \/ execution_starts
    \/ execution_ends
    \/ describe_stacks
    \/ execute_changeset_end

SpecRemote == InitVersion /\ [][NextRemote]_vars

(***************************************************************************)
(* Vocabulary of the properties.                                           *)
(***************************************************************************)
Range(seq) == { seq[j] : j \in 1..Len(seq) }

IsPrefix(a, b) == Len(a) <= Len(b) /\ \A j \in 1..Len(a) : a[j] = b[j]

Done == pc = "done"

\* the version deploy_all and rollback_all find when they start: the value
\* of the store, NO_VERSION when the store has none
Previous == IF store0 = NotFound THEN NO_VERSION ELSE store0

\* the operation fn of step k ended with outcome o
Ended(fn, k, o) == \E j \in 1..Len(outcomes) : outcomes[j] = <<fn, k, o>>

AllDeploysSucceeded == \A k \in StepIds : Ended("deploy", k, "ok")

\* deploy_all left its loop by `break`: it is the only place that reads
\* ENNIO_NO_ROLLBACK
Broke == op = "deploy_all" /\ no_rollback # None

\* the index of the step whose failure broke the loop
FailedAt == Len(deployLog)

\* the steps before index i whose deploy succeeded, in deploy order
SucceededBefore(i) ==
    SelectSeq([n \in StepIds |-> n], LAMBDA k : k < i /\ Ended("deploy", k, "ok"))

\* the rollbacks owed after a failure at index i: the steps before i whose
\* deploy succeeded, last first, each with the previous version
RollbackPlan(i) ==
    LET done == SucceededBefore(i)
    IN  [j \in 1..Len(done) |-> <<done[Len(done) + 1 - j], Previous>>]

RollbackDisabled == no_rollback = "True"

(***************************************************************************)
(* C1: if every step's deploy succeeds, deploy_all ends with the           *)
(* VersionStore holding the target version and with no rollback invoked    *)
(* on any step.                                                            *)
(*                                                                         *)
(* As stated it fails: the write of the target version can fail, and       *)
(* deploy_all then ends by that exception with the store unchanged.        *)
(***************************************************************************)
C1_AsStated ==
    (Done /\ op = "deploy_all" /\ AllDeploysSucceeded)
        => (store = build /\ rollbackLog = <<>>)

\* C1, amended: if every step's deploy succeeds, deploy_all invokes no
\* rollback and sends exactly one write, of the target version, to the
\* VersionStore; when that write succeeds deploy_all returns with the store
\* holding the target version, and when it fails deploy_all ends by the
\* exception with the store unchanged.
C1_AllSucceed ==
    (Done /\ op = "deploy_all" /\ AllDeploysSucceeded)
        => /\ rollbackLog = <<>>
           /\ Len(storeLog) = 1
           /\ storeLog[1][1] = "put"
           /\ storeLog[1][2] = build
           /\ IF storeLog[1][3]
              THEN store = build /\ result = "returned"
              ELSE store = store0 /\ result = "raised"

C1_Witness ==
    /\ Done
    /\ op = "deploy_all"
    /\ AllDeploysSucceeded
    /\ result = "returned"
    /\ store = build
    /\ store0 # build

(***************************************************************************)
(* C2: when the first non-ignorable deploy failure is at index i,          *)
(* deploy_all invokes rollback(previous version) exactly once on each step *)
(* before i whose deploy succeeded and on no other step, in strictly       *)
(* reverse deploy order, and then terminates with a non-zero status.       *)
(*                                                                         *)
(* As stated it fails: no rollback is invoked on a first deployment        *)
(* (previous version NO_VERSION) or when ENNIO_NO_ROLLBACK is "true", and  *)
(* a rollback that fails ends the walk.                                    *)
(***************************************************************************)
C2_AsStated ==
    (Done /\ Broke)
        => (rollbackLog = RollbackPlan(FailedAt) /\ ExitStatus # 0)

\* C2, amended: when the first non-ignorable deploy failure is at index i,
\* deploy_all invokes no rollback if rollback is disabled or the previous
\* version is NO_VERSION; otherwise it invokes rollback(previous version) on
\* the steps before i whose deploy succeeded and on no other step, in
\* strictly reverse deploy order, each at most once, until one rollback
\* fails; if none fails each of these steps is rolled back exactly once.
\* deploy_all then terminates with a non-zero status: by sys.exit(1), or by
\* the exception of the rollback that failed.
C2_Rollback ==
    (Done /\ Broke)
        => /\ ExitStatus # 0
           /\ result \in {"exit1", "raised"}
           /\ IF RollbackDisabled \/ Previous = NO_VERSION
              THEN rollbackLog = <<>> /\ result = "exit1"
              ELSE /\ IsPrefix(rollbackLog, RollbackPlan(FailedAt))
                   /\ result = "exit1"
                        => /\ rollbackLog = RollbackPlan(FailedAt)
                           /\ \A j \in 1..Len(rollbackLog) :
                                 Ended("rollback", rollbackLog[j][1], "ok")
                   /\ result = "raised"
                        => /\ rollbackLog # <<>>
                           /\ outcomes[Len(outcomes)] =
                                <<"rollback",
                                  rollbackLog[Len(rollbackLog)][1], "fail">>

\* the scenario [A, B, C] with more to roll back: C fails, A and B are
\* rolled back, B first
C2_Witness ==
    /\ Done
    /\ Broke
    /\ FailedAt = 3
    /\ result = "exit1"
    /\ rollbackLog = <<<<2, "v1">>, <<1, "v1">>>>

(***************************************************************************)
(* C3: when the deploy of the step at index i fails and that step has      *)
(* ignore_error set, deploy_all goes on to invoke deploy on the step at    *)
(* index i+1 (if any), and the step at index i is never in `changed`, so   *)
(* that rollback is never invoked on it in that run.                       *)
(***************************************************************************)
IgnoredFailure(k) == Ended("deploy", k, "fail") /\ steps[k].ignore_error

C3_Ignored ==
    \A k \in StepIds :
        (op = "deploy_all" /\ IgnoredFailure(k))
            => /\ k \notin Range(changed)
               /\ \A j \in 1..Len(rollbackLog) : rollbackLog[j][1] # k
               /\ k < NSteps
                    => \/ pc = "deploy_wait" /\ call.step = k
                       \/ pc = "deploy_loop" /\ idx = k + 1
                       \/ k + 1 \in Range(deployLog)

C3_Witness ==
    /\ Done
    /\ op = "deploy_all"
    /\ IgnoredFailure(2)
    /\ deployLog = <<1, 2, 3>>
    /\ rollbackLog = <<<<1, "v1">>>>

(***************************************************************************)
(* C4: delete_all invokes delete on the steps in exactly the reverse of    *)
(* the deploy order, each at most once, and stops at the first step whose  *)
(* delete fails, whatever that step's ignore_error: no step earlier in     *)
(* deploy order than the failed one has its delete invoked.                *)
(***************************************************************************)
C4_DeleteOrder ==
    op = "delete_all"
        => /\ \A j \in 1..Len(deleteLog) : deleteLog[j] = NSteps + 1 - j
           /\ \A k \in StepIds :
                 Ended("delete", k, "fail")
                    => /\ deleteLog[Len(deleteLog)] = k
                       /\ pc \in {"delete_wait", "return", "done"}
           /\ (Done /\ result = "returned")
                 => \/ Len(deleteLog) = NSteps
                    \/ Ended("delete", deleteLog[Len(deleteLog)], "fail")

C4_Witness ==
    /\ Done
    /\ op = "delete_all"
    /\ deleteLog = <<3, 2>>
    /\ Ended("delete", 2, "fail")
    /\ steps[2].ignore_error

(***************************************************************************)
(* C5: when the current version is NO_VERSION, rollback_all invokes        *)
(* rollback on no step, for any non-empty `changed`, and returns           *)
(* normally.                                                               *)
(***************************************************************************)
C5_NoVersion ==
    _version = NO_VERSION
        => /\ rollbackLog = <<>>
           /\ pc \notin {"rollback_loop", "rollback_wait"}
           /\ (op = "rollback_all" /\ Done) => result = "returned"

C5_Witness ==
    /\ Done
    /\ op = "rollback_all"
    /\ _version = NO_VERSION
    /\ Len(changed) = NSteps
    /\ result = "returned"
    /\ rollbackLog = <<>>


(***************************************************************************)
(* C6: the application is deployed as one transactional unit: whenever     *)
(* deploy_all terminates, either every stack step has reached the target   *)
(* version, or every step deploy_all had changed is back at the version    *)
(* the VersionStore held when the run started.                             *)
(*                                                                         *)
(* As stated it fails: a first deployment that fails is not rolled back    *)
(* (NO_VERSION), nor is one under ENNIO_NO_ROLLBACK; a rollback that fails *)
(* ends the walk; and a run with an ignored failure succeeds with that     *)
(* step not at the target version.  The statement is read here in its      *)
(* weakest sense, a step counting as having reached a version as soon as   *)
(* its deploy or rollback with that version returned normally.             *)
(***************************************************************************)
\* the step is a stack step (app.py:157-178)
IsStackStep(n) == steps[n].deploy = "stack.deploy"

C6_AsStated ==
    (Done /\ op = "deploy_all")
        => \/ \A n \in StepIds : IsStackStep(n) => applied[n] = build
           \/ \A n \in Range(changed) : applied[n] = store0

\* step n's rollback was invoked with version v
RolledBackWith(n, v) ==
    \E j \in 1..Len(rollbackLog) : rollbackLog[j] = <<n, v>>

\* C6, amended: when deploy_all returns normally, the VersionStore holds
\* the target version and the deploy of every step was invoked with the
\* target version and returned normally, but for the steps whose deploy
\* failed with ignore_error set; when deploy_all ends by sys.exit(1) after a
\* rollback that was neither disabled nor skipped for NO_VERSION, the
\* rollback of every step deploy_all had changed was invoked with the
\* version the VersionStore held when the run started, and returned
\* normally.  The statement is about calls and their returns, not about the
\* stacks: a deploy or rollback of a stack step also returns normally when
\* the stack ends on a status that ends in FAILED (C18) or when the status
\* read is the one left by the operation before (C24).
C6_Transaction ==
    (Done /\ op = "deploy_all")
        => /\ result = "returned"
                => /\ store = build
                   /\ deployLog = [n \in StepIds |-> n]
                   /\ \A n \in StepIds :
                         \/ Ended("deploy", n, "ok") /\ applied[n] = build
                         \/ IgnoredFailure(n)
           /\ (result = "exit1" /\ ~RollbackDisabled /\ Previous # NO_VERSION)
                => \A n \in Range(changed) :
                      /\ RolledBackWith(n, store0)
                      /\ Ended("rollback", n, "ok")
                      /\ applied[n] = store0

C6_Witness ==
    /\ Done
    /\ op = "deploy_all"
    /\ result = "exit1"
    /\ build = "v2"
    /\ store0 = "v1"
    /\ changed = <<1, 2>>
    /\ applied = [n \in StepIds |-> "v1"]
    /\ rollbackLog = <<<<2, "v1">>, <<1, "v1">>>>
    /\ Ended("rollback", 1, "ok")
    /\ Ended("rollback", 2, "ok")

(***************************************************************************)
(* C7: the VersionStore is written only on full pipeline success: in every *)
(* run of deploy_all that hits a non-ignorable failure, with or without    *)
(* rollback, and in every run of rollback_all and of delete_all, the value *)
(* of the VersionStore is never written or deleted and stays the one at    *)
(* the start of the run.                                                   *)
(***************************************************************************)
C7_StoreUntouched ==
    /\ (Broke \/ op \in {"rollback_all", "delete_all"})
          => (storeLog = <<>> /\ store = store0)
    /\ storeLog # <<>>
          => /\ op = "deploy_all"
             /\ Done
             /\ \A k \in StepIds : Ended("deploy", k, "ok") \/ IgnoredFailure(k)

C7_Witness ==
    /\ Done
    /\ Broke
    /\ rollbackLog # <<>>
    /\ result = "exit1"
    /\ store = "v1"
    /\ build = "v2"

(***************************************************************************)
(* C8: if the stack status the polling of execute_changeset stops on is    *)
(* UPDATE_ROLLBACK_COMPLETE, ROLLBACK_COMPLETE or DELETE_COMPLETE,         *)
(* execute_changeset raises instead of returning, although the status      *)
(* ends in COMPLETE.                                                       *)
(***************************************************************************)
C8_BadStatus ==
    ( /\ call.fn \in {"deploy", "rollback"}
      /\ spc \in {"deployed", "done"}
      /\ status \in { <<"UPDATE", "ROLLBACK", "COMPLETE">>,
                      <<"ROLLBACK", "COMPLETE">>,
                      <<"DELETE", "COMPLETE">> } )
        => /\ exc = <<"RuntimeError", "Failed to create/update stack.">>
           /\ spc = "done" => ret = "fail"

C8_Witness ==
    /\ call.fn = "deploy"
    /\ spc = "done"
    /\ status = <<"DELETE", "COMPLETE">>
    /\ ret = "fail"

(***************************************************************************)
(* C9: when describe_changeset reads a change set whose status is FAILED,  *)
(* it raises EmptyChangeSetError if the reason contains "didn't contain    *)
(* changes" or is "No updates are to be performed.", and a generic         *)
(* failure for every other reason; it never returns a change list for a    *)
(* FAILED change set.                                                      *)
(***************************************************************************)
NoDiffReasons ==
    { <<"The", "submitted", "information", "didn't", "contain", "changes", ".">>,
      <<"Resources", "didn't", "contain", "changes", "to", "apply">>,
      <<"No", "updates", "are", "to", "be", "performed", ".">> }

C9_FailedChangeSet ==
    cs.status = "FAILED"
        => /\ changes = None
           /\ spc \in {"described", "deployed", "done"}
           /\ spc = "described"
                => exc = IF cs.reason \in NoDiffReasons
                         THEN <<"EmptyChangeSetError", "">>
                         ELSE <<"RuntimeError", "Failed to create changeset">>

C9_Witness ==
    /\ spc = "described"
    /\ cs.status = "FAILED"
    /\ cs.reason = <<"The", "submitted", "information", "didn't", "contain",
                     "changes", ".">>
    /\ exc = <<"EmptyChangeSetError", "">>

(***************************************************************************)
(* C10: when describe_changeset signals an empty diff, deploy_stack        *)
(* returns normally with no changes and never calls execute_changeset for  *)
(* that change set; and a step whose deploy is such a no-op is recorded by *)
(* deploy_all as changed, like any other step that succeeded.              *)
(***************************************************************************)
EmptyDiff == cs.status = "FAILED" /\ cs.reason \in NoDiffReasons

C10_NoChanges ==
    EmptyDiff
        => /\ spc \in {"described", "deployed", "done"}
           /\ \A j \in 1..Len(cfnLog) : cfnLog[j][1] # "execute_change_set"
           /\ changes = None
           /\ spc \in {"deployed", "done"} => exc = NoExc
           /\ spc = "done" => ret = "ok"

C10_Recorded ==
    (EmptyDiff /\ pc = "deploy_wait" /\ spc = "done")
        => /\ changed' = Append(changed, call.step)
           /\ pc' = "deploy_loop"

C10_NoOpDeploy == []C10_NoChanges /\ [][C10_Recorded]_vars

C10_Witness ==
    /\ EmptyDiff
    /\ pc = "deploy_wait"
    /\ spc = "done"
    /\ ret = "ok"
    /\ changes = None

(***************************************************************************)
(* C11: create_changeset submits a change request of type CREATE when the  *)
(* remote stack does not exist and of type UPDATE when it exists; when the *)
(* template is neither a local file nor a remote URL (a string that starts *)
(* with "http") it fails without submitting any change request.            *)
(***************************************************************************)
BadTemplate == <<"RuntimeError", "Bad template">>

DeployingStack ==
    call.fn \in {"deploy", "rollback"} /\ steps[call.step][call.fn] # "method"

\* the change requests the running deploy_stack has submitted
Submitted == SelectSeq(cfnLog, LAMBDA r : r[1] = "create_change_set")

\* once stack_exists has answered, either the template was refused and
\* nothing was submitted, or one request of the type the answer calls for
C11_Type ==
    (DeployingStack /\ cfnLog # <<>>)
        => /\ cfnLog[1][1] = "stack_exists"
           /\ IF exc = BadTemplate
              THEN Submitted = <<>>
              ELSE Submitted =
                     << <<"create_change_set",
                          IF cfnLog[1][2] = "no" THEN "CREATE" ELSE "UPDATE">> >>

\* the step of create_changeset: a template that is neither a file nor a
\* URL ends it by an exception, with nothing submitted; any other template
\* is submitted unless stack_exists itself failed
C11_Template ==
    spc = "create_changeset"
        => IF ~template.isfile /\ ~template.http
           THEN /\ exc' \in {BadTemplate, <<"ClientError", "">>}
                /\ spc' = "deployed"
                /\ \A j \in 1..Len(cfnLog') : cfnLog'[j][1] # "create_change_set"
           ELSE /\ exc' # BadTemplate
                /\ \/ cfnLog' = cfnLog /\ exc' = <<"ClientError", "">>
                   \/ /\ Len(cfnLog') = 2
                      /\ cfnLog'[2][1] = "create_change_set"

C11_CreateChangeset == []C11_Type /\ [][C11_Template]_vars

C11_Witness ==
    /\ call.fn = "deploy"
    /\ spc = "describe_changeset"
    /\ cfnLog = << <<"stack_exists", "no">>, <<"create_change_set", "CREATE">> >>

(***************************************************************************)
(* C12: for a ready change request (CREATE_COMPLETE with execution status  *)
(* AVAILABLE) whose change list spans any number of pages,                 *)
(* describe_changeset returns the concatenation of all pages in their      *)
(* original order, each change exactly once; and invoking it twice on the  *)
(* same ready change request yields the same ordered change list: what it  *)
(* returns is the change list of the request, however the remote pages it. *)
(***************************************************************************)
RECURSIVE Flatten(_)
Flatten(pages) ==
    IF pages = <<>> THEN <<>> ELSE Head(pages) \o Flatten(Tail(pages))

\* describe_changeset has returned a change list
Described == spc = "described" /\ exc = <<>> /\ cs.status = "CREATE_COMPLETE"

C12_Pagination ==
    Described
        => /\ changes = Flatten(cs.pages)
           /\ changes = <<"c1", "c2", "c3">>
           /\ \A c \in Range(changes) :
                 Cardinality({j \in 1..Len(changes) : changes[j] = c}) = 1

C12_Witness ==
    /\ Described
    /\ Len(cs.pages) = 2
    /\ cs.pages[1] = <<"c1">>
    /\ changes = <<"c1", "c2", "c3">>

(***************************************************************************)
(* C13: stack delete is a no-op that issues no remote delete when the      *)
(* stack does not exist; when the stack exists it issues the delete, polls *)
(* until a terminal status, and succeeds if and only if the stack was      *)
(* deleted (terminal status DELETE_COMPLETE), failing on any other         *)
(* terminal status.  A remote call that raises ends the delete by that     *)
(* exception.                                                              *)
(***************************************************************************)
DeletingStack == call.fn = "delete" /\ steps[call.step].delete = "stack.delete"

\* the delete_stack requests the running delete has sent
DeleteRequests == SelectSeq(cfnLog, LAMBDA r : r[1] = "delete_stack")

C13_Delete ==
    (DeletingStack /\ cfnLog # <<>>)
        => /\ cfnLog[1][1] = "stack_exists"
           /\ IF cfnLog[1][2] = "no"
              THEN /\ DeleteRequests = <<>>
                   /\ status = <<>>
                   /\ exc = <<>>
                   /\ spc \in {"deleted", "done"}
                   /\ spc = "done" => ret = "ok"
              ELSE /\ Len(DeleteRequests) <= 1
                   /\ DeleteRequests = <<>> => exc = <<"ClientError", "">>
                   /\ status # <<>>
                        => /\ Len(DeleteRequests) = 1
                           /\ status[Len(status)] \in {"COMPLETE", "FAILED"}
                   /\ spc \in {"deleted", "done"}
                        => (exc = <<>> <=> status = <<"DELETE", "COMPLETE">>)
                   /\ spc = "done"
                        => (ret = "ok" <=> status = <<"DELETE", "COMPLETE">>)

C13_Witness ==
    /\ DeletingStack
    /\ spc = "done"
    /\ cfnLog = << <<"stack_exists", "yes">>, <<"delete_stack", "None">> >>
    /\ status = <<"DELETE", "FAILED">>
    /\ ret = "fail"

(***************************************************************************)
(* C14: when rollback is explicitly disabled (ENNIO_NO_ROLLBACK is true,   *)
(* in any case of the letters), a deploy_all run that hits a non-ignorable *)
(* failure invokes rollback on no step and still terminates with a         *)
(* non-zero status; when rollback is not disabled that run performs        *)
(* rollback_all on the changed list before terminating with a non-zero     *)
(* status.                                                                 *)
(***************************************************************************)
\* what rollback_all(changed) invokes, in order, when no rollback fails:
\* nothing for NO_VERSION, and otherwise the rollback of every step of
\* `changed`, last first, with the current version
RollbackOfChanged ==
    IF Previous = NO_VERSION THEN <<>>
    ELSE [j \in 1..Len(changed) |-> <<changed[Len(changed) + 1 - j], Previous>>]

C14_NoRollbackEnv ==
    Broke
        => /\ pc \in {"rollback_loop", "rollback_wait", "sys_exit", "done"}
           /\ Done => (ExitStatus # 0 /\ result \in {"exit1", "raised"})
           /\ IF no_rollback = "True"
              THEN /\ rollbackLog = <<>>
                   /\ pc \in {"sys_exit", "done"}
                   /\ Done => result = "exit1"
              ELSE /\ IsPrefix(rollbackLog, RollbackOfChanged)
                   /\ (pc = "sys_exit" \/ (Done /\ result = "exit1"))
                        => rollbackLog = RollbackOfChanged
                   /\ (Done /\ result = "raised")
                        => /\ rollbackLog # <<>>
                           /\ Ended("rollback",
                                    rollbackLog[Len(rollbackLog)][1], "fail")

C14_Witness ==
    /\ Done
    /\ Broke
    /\ no_rollback = "True"
    /\ Previous = "v1"
    /\ Len(changed) = 2
    /\ rollbackLog = <<>>
    /\ result = "exit1"

(***************************************************************************)
(* C15: setting the version writes it to the VersionStore and then updates *)
(* the cache; if the store write fails the cached version is left          *)
(* unchanged, and after a successful set the cached version equals the     *)
(* value held by the VersionStore.                                         *)
(***************************************************************************)
LastAccess == accesses[Len(accesses)]

LastStoreCall == storeLog[Len(storeLog)]

C15_Setter ==
    (accesses # <<>> /\ LastAccess.op = "set")
        => /\ storeLog # <<>>
           /\ LastStoreCall = <<"put", LastAccess.arg, ~LastAccess.raised>>
           /\ IF LastAccess.raised
              THEN _version = LastAccess.cached
              ELSE _version = LastAccess.arg /\ _version = store

C15_Witness ==
    /\ accesses # <<>>
    /\ LastAccess.op = "set"
    /\ LastAccess.raised
    /\ LastAccess.cached = "v1"
    /\ LastAccess.arg = "v2"
    /\ _version = "v1"

(***************************************************************************)
(* C16: deleting the version clears both the VersionStore entry and the    *)
(* cache and treats a not-found answer of the store as success (the cache  *)
(* is still cleared); after a successful delete the next read of version   *)
(* fetches from the VersionStore again and yields NO_VERSION.              *)
(***************************************************************************)
Deleted(access) == access.op = "delete" /\ ~access.raised

C16_Deleter ==
    /\ (accesses # <<>> /\ Deleted(LastAccess))
          => /\ store = "ParameterNotFound"
             /\ _version = "None"
             /\ LastStoreCall = <<"delete", "None", TRUE>>
    /\ (Len(accesses) = 2 /\ Deleted(accesses[1]) /\ accesses[2].op = "get")
          => /\ accesses[2].fetched
             /\ ~accesses[2].raised
                  => (accesses[2].value = "-1" /\ _version = "-1")

\* the store had no entry while the cache held a version: the delete is a
\* success, and the read that follows fetches again
C16_Witness ==
    /\ Len(accesses) = 2
    /\ Deleted(accesses[1])
    /\ accesses[1].stored = "ParameterNotFound"
    /\ accesses[1].cached = "-1"
    /\ accesses[2].op = "get"
    /\ accesses[2].fetched
    /\ accesses[2].value = "-1"

(***************************************************************************)
(* C17: deploy_all is fail-fast and strictly sequential: it invokes deploy *)
(* on the steps in configuration order, each at most once, and after the   *)
(* first non-ignorable failure at index i no step with index > i ever has  *)
(* its deploy invoked in that run.                                         *)
(***************************************************************************)
\* the deploy of step k failed and the step does not ignore errors
FatalFailure(k) == Ended("deploy", k, "fail") /\ ~steps[k].ignore_error

C17_FailFast ==
    op = "deploy_all"
        => /\ \A j \in 1..Len(deployLog) : deployLog[j] = steps[j].name
           /\ Len(deployLog) <= NSteps
           /\ \A k \in StepIds :
                 FatalFailure(k)
                    => /\ Len(deployLog) = k
                       /\ pc \notin {"deploy_loop"}
                       /\ \A j \in 1..Len(outcomes) :
                             outcomes[j][1] = "deploy" => outcomes[j][2] <= k
           /\ pc = "deploy_wait" => call.step = deployLog[Len(deployLog)]

C17_Witness ==
    /\ Done
    /\ op = "deploy_all"
    /\ FatalFailure(2)
    /\ deployLog = <<1, 2>>
    /\ Len(rollbackLog) = 1
    /\ result = "exit1"

(***************************************************************************)
(* C18: when the remote stack ends an executed change in a failed terminal *)
(* state (a status with the FAILED suffix, such as CREATE_FAILED,          *)
(* UPDATE_FAILED or UPDATE_ROLLBACK_FAILED), execute_changeset fails and   *)
(* that failure reaches the orchestrator's step loop as a step failure;    *)
(* execute_changeset returns normally only for a successful forward        *)
(* completion.                                                             *)
(*                                                                         *)
(* The code does not do this: a status that ends in FAILED stops the       *)
(* polling, is not among bad_statuses, and execute_changeset returns; the  *)
(* step's deploy succeeds.                                                 *)
(***************************************************************************)
\* execute_changeset is over, and the deploy_stack that called it with it
Executed == DeployingStack /\ spc \in {"deployed", "done"} /\ status # <<>>

C18_AsStated ==
    Executed
        => /\ status[Len(status)] = "FAILED"
                => (exc # <<>> /\ (spc = "done" => ret = "fail"))
           /\ exc = <<>>
                => status \in {<<"CREATE", "COMPLETE">>, <<"UPDATE", "COMPLETE">>}

\* the stack ended in UPDATE_FAILED and the step's deploy returned normally
C18_Witness ==
    /\ call.fn = "deploy"
    /\ Executed
    /\ spc = "done"
    /\ status = <<"UPDATE", "FAILED">>
    /\ exc = <<>>
    /\ ret = "ok"

(***************************************************************************)
(* C19: every blocking polling wait (describe_changeset, execute_changeset *)
(* and stack delete) is given a timeout bound and fails with a timeout     *)
(* error once the elapsed time exceeds that bound; hence each wait         *)
(* eventually terminates, by a terminal state or by timeout, even when the *)
(* remote never reaches a terminal state.                                  *)
(*                                                                         *)
(* The code does not do this: delete_stack calls sleep(start) with no      *)
(* timeout, and its wait goes on for as long as the remote answers a       *)
(* status that is not terminal.                                            *)
(***************************************************************************)
Waiting == spc \in {"describe_changeset", "execute_wait", "delete_wait"}

\* a wait has a bound, and the sleep before its last poll began within it
C19_AsStated ==
    Waiting
        => /\ timeout >= 0
           /\ polls > 0
                => \E latency \in {0, SlowCall} :
                      elapsed - slept - latency <= timeout

\* the wait of delete_stack, unbounded, past every timeout of the model's
\* other waits but the default one
C19_Witness ==
    /\ spc = "delete_wait"
    /\ timeout = -1
    /\ polls = 2
    /\ elapsed > 60

(***************************************************************************)
(* C20: within one blocking wait, the poll interval is                     *)
(* floor(sqrt(elapsed_seconds) * 2.5) + 4 with elapsed_seconds the time    *)
(* since the wait started: it is never below the base 4 and never          *)
(* decreases from one poll to the next as the wait goes on, for every      *)
(* elapsed time (including waits longer than one day).                     *)
(*                                                                         *)
(* The code does not do this: it takes timedelta.seconds, the seconds      *)
(* within the running day, for the elapsed time, and after one day the     *)
(* interval falls back to the base.                                        *)
(***************************************************************************)
\* floor(sqrt(seconds) * 2.5) + 4
ClaimedInterval(seconds) == (Isqrt(25 * seconds) \div 2) + 4

C20_Sleep ==
    (spc = "wait" /\ elapsed' # elapsed)
        => /\ slept' = ClaimedInterval(elapsed)
           /\ slept' >= 4
           /\ slept' >= slept

C20_AsStated == [][C20_Sleep]_vars

\* more than a day into the wait, an interval shorter than the one before
C20_Witness ==
    /\ spc = "wait"
    /\ elapsed - slept >= 86400
    /\ slept < 100


(***************************************************************************)
(* C21: within one run of deploy_all the version is read from the          *)
(* VersionStore at most once, before any step's deploy is invoked, and is  *)
(* cached; a store without the parameter gives NO_VERSION, not an error;   *)
(* every rollback invoked in the run receives exactly the cached value as  *)
(* its version argument.                                                   *)
(***************************************************************************)
\* the read of deploy_all's first line went through
VersionRead == op = "deploy_all" /\ ~(Done /\ result = "raised" /\ deployLog = <<>>)

C21_VersionOnce ==
    op = "deploy_all"
        => /\ storeReads <= 1
           /\ deployLog # <<>> => (storeReads = 1 /\ _version # None)
           /\ (VersionRead /\ storeLog = <<>>)
                 => (storeReads = 1 /\ _version = Previous)
           /\ \A j \in 1..Len(rollbackLog) :
                 rollbackLog[j][2] = _version /\ _version = Previous
           /\ call.fn = "rollback" => call.arg = _version

C21_Witness ==
    /\ Done
    /\ op = "deploy_all"
    /\ result = "exit1"
    /\ store0 = "v1"
    /\ _version = "v1"
    /\ storeReads = 1
    /\ Len(deployLog) = NSteps
    /\ rollbackLog = <<<<2, "v1">>, <<1, "v1">>>>


(***************************************************************************)
(* C22: rollback is single-pass: when a step's rollback fails during       *)
(* rollback_all, the failure propagates at once out of rollback_all and    *)
(* of deploy_all, whatever the step's ignore_error flag is; that rollback  *)
(* is not retried, and no rollback is invoked on the changed steps that    *)
(* remain, those earlier in deploy order.                                  *)
(***************************************************************************)
\* the number of rollbacks invoked on step k
RollbacksOf(k) ==
    Cardinality({ j \in 1..Len(rollbackLog) : rollbackLog[j][1] = k })

C22_SinglePass ==
    \A k \in StepIds :
        Ended("rollback", k, "fail")
            => /\ rollbackLog[Len(rollbackLog)][1] = k
               /\ RollbacksOf(k) = 1
               /\ pc \in {"rollback_wait", "done"}
               /\ Done => result = "raised"

C22_Witness ==
    /\ Done
    /\ op = "deploy_all"
    /\ result = "raised"
    /\ changed = <<1, 2>>
    /\ steps[2].ignore_error
    /\ Ended("rollback", 2, "fail")
    /\ rollbackLog = <<<<2, "v1">>>>


(***************************************************************************)
(* C23: if every deploy failure of a run is on a step with ignore_error    *)
(* set, a failure on the last step or on every step included, the loop     *)
(* completes, deploy_all writes the target version to the VersionStore,    *)
(* invokes no rollback and reports success.                                *)
(*                                                                         *)
(* As stated it fails: the write of the target version can fail, and       *)
(* deploy_all then ends by that exception with the store unchanged.        *)
(***************************************************************************)
\* a deploy failed, and every deploy that failed was of a step with
\* ignore_error set
OnlyIgnoredFailures ==
    /\ op = "deploy_all"
    /\ \E k \in StepIds : Ended("deploy", k, "fail")
    /\ \A k \in StepIds : Ended("deploy", k, "fail") => steps[k].ignore_error

\* the deploy of every step ended
LoopCompleted ==
    \A k \in StepIds : Ended("deploy", k, "ok") \/ Ended("deploy", k, "fail")

C23_AsStated ==
    (Done /\ OnlyIgnoredFailures)
        => /\ LoopCompleted
           /\ store = build
           /\ rollbackLog = <<>>
           /\ result = "returned"

\* C23, amended: if every deploy failure of a run is on a step with
\* ignore_error set, a failure on the last step or on every step included,
\* the loop never breaks and no rollback is invoked; the run ends with the
\* deploy of every step invoked and with exactly one write, of the target
\* version, sent to the VersionStore; when that write succeeds deploy_all
\* returns with the store holding the target version, and when it fails
\* deploy_all ends by the exception with the store unchanged.
C23_OnlyIgnored ==
    OnlyIgnoredFailures
        => /\ ~Broke
           /\ rollbackLog = <<>>
           /\ pc \in {"deploy_loop", "deploy_wait", "done"}
           /\ Done
                => /\ LoopCompleted
                   /\ deployLog = [n \in StepIds |-> n]
                   /\ Len(storeLog) = 1
                   /\ storeLog[1][1] = "put"
                   /\ storeLog[1][2] = build
                   /\ IF storeLog[1][3]
                      THEN store = build /\ result = "returned"
                                        /\ ExitStatus = 0
                      ELSE store = store0 /\ result = "raised"

\* every step fails, the last one too, and the run succeeds
C23_Witness ==
    /\ Done
    /\ op = "deploy_all"
    /\ \A k \in StepIds : IgnoredFailure(k)
    /\ changed = <<>>
    /\ rollbackLog = <<>>
    /\ result = "returned"
    /\ store = build
    /\ store0 # build


(***************************************************************************)
(* C24: with the remote stack updating its status asynchronously after     *)
(* execute_change_set is accepted, execute_changeset returns normally only *)
(* after the execution it triggered has itself reached a terminal state:   *)
(* a terminal status left over from before the execution started, such as  *)
(* the UPDATE_COMPLETE of the update before, is never taken as the result  *)
(* of this execution.                                                      *)
(*                                                                         *)
(* It does not hold of the code: the loop stops on the first status that   *)
(* ends in FAILED or COMPLETE, and nothing tells the status the stack had  *)
(* before the execution started from the one the execution ends on.        *)
(***************************************************************************)
\* execute_changeset returned without raising
ExecutedNormally == spc = "deployed" /\ exc = NoExc /\ remote # NoRemote

C24_AsStated == ExecutedNormally => remote.phase = "finished"

\* execute_changeset has returned on the status of the update before, while
\* the execution it asked for has not started
C24_Witness ==
    /\ ExecutedNormally
    /\ remote = [status |-> UPDATE_COMPLETE, phase |-> "accepted"]
    /\ status = UPDATE_COMPLETE
    /\ cfnLog = <<<<"execute_change_set", None>>>>


(***************************************************************************)
(* C25: if every step's deploy succeeds but the final write of the target  *)
(* version to the VersionStore fails, deploy_all invokes rollback on no    *)
(* step and the failure of the write propagates to the caller: the run     *)
(* ends with every step at the target version while the VersionStore and   *)
(* the cached version still hold the previous version.                     *)
(***************************************************************************)
\* the write of deploy_all's else branch was sent and failed
WriteFailed ==
    /\ op = "deploy_all"
    /\ storeLog # <<>>
    /\ storeLog[Len(storeLog)] = <<"put", build, FALSE>>

C25_WriteFails ==
    WriteFailed
        => /\ AllDeploysSucceeded \/ \E k \in StepIds : IgnoredFailure(k)
           /\ Done
           /\ result = "raised"
           /\ rollbackLog = <<>>
           /\ ~Broke
           /\ store = store0
           /\ _version = Previous
           /\ AllDeploysSucceeded => \A n \in StepIds : applied[n] = build

C25_Witness ==
    /\ WriteFailed
    /\ AllDeploysSucceeded
    /\ Done
    /\ result = "raised"
    /\ build = "v2"
    /\ store = "v1"
    /\ _version = "v1"
    /\ applied = [n \in StepIds |-> "v2"]
    /\ rollbackLog = <<>>


(***************************************************************************)
(* C26: delete_all never terminates the process with a non-zero status     *)
(* because of a step failure: when a step's delete fails with an ordinary  *)
(* error, delete_all stops the loop and returns normally, so that a partly *)
(* failed tear-down ends in the same way, return and exit status, as a     *)
(* complete one.                                                           *)
(***************************************************************************)
\* a delete failed in a run of delete_all
DeleteFailed ==
    op = "delete_all" /\ \E k \in StepIds : Ended("delete", k, "fail")

C26_DeleteAllReturns ==
    /\ DeleteFailed
         => /\ pc \in {"delete_wait", "return", "done"}
            /\ Done => (result = "returned" /\ ExitStatus = 0)
    /\ (op = "delete_all" /\ Done /\ ExitStatus # 0) => deleteLog = <<>>

\* the first delete fails, two steps are left standing, and the process
\* ends with status 0
C26_Witness ==
    /\ Done
    /\ DeleteFailed
    /\ deleteLog = <<3>>
    /\ Ended("delete", 3, "fail")
    /\ ~steps[3].ignore_error
    /\ result = "returned"
    /\ ExitStatus = 0


====
